---- MODULE Spec2Model ----
(***************************************************************************)
(* Model of arkham.py: the top-level restart loop (main), the trading      *)
(* Supervisor loop (run_trading_loop), the BUY and SELL order controllers  *)
(* (trade_limit_buy_asset, trade_limit_sell_asset) and the cancellation    *)
(* primitive (cancel_order), running against a venue whose prices move and *)
(* whose orders fill on their own.                                         *)
(*                                                                         *)
(* Prices are integers in cents, balances and sizes integers in units of   *)
(* 0.0001.  NoPrice stands for Python's None / empty string.               *)
(***************************************************************************)
EXTENDS Integers, Sequences, FiniteSets, TLC

\* ---------------------------------------------------------------- bounds
MaxPrice == 2          \* displayed prices range over 1..MaxPrice (cents)
MaxOrders == 1         \* the venue holds at most this many open orders
MaxFailures == 2       \* cancel_order is not entered with a larger counter

\* ------------------------------------------------------ program constants
StuckThreshold == 3    \* active_order_count >= 3
MaxChecks == 3         \* while check_count < 3
IncLo == 1             \* random.uniform(0.01, 0.04), in cents
IncHi == 4
PctLo == 800           \* random.uniform(0.80, 0.95), per mille
PctHi == 950
DedLo == 10000         \* random.uniform(1, 2), in units of 0.0001
DedHi == 20000
UsdtAdjust == 10000    \* usdt_balance = asset0_balance - 1
Grain == 10            \* round(..., 3): sizes are multiples of 0.001

NoPrice == 0
Prices == 1..MaxPrice
Increments == IncLo..IncHi
Pcts == {PctLo, PctHi}
Deductions == {DedLo, DedHi}
\* wallets shown on the page, <<asset free, quote free>> in units of 0.0001
Wallets == {<<10000, 20000>>}

VARIABLES
  pc,                    \* position of the single thread of control
  transaction_type,      \* run_trading_loop: 'buy' | 'sell'
  active_order_count,    \* run_trading_loop: consecutive active-order polls
  success,               \* value returned by the last controller invocation
  outcome,               \* the return site the controller left through
  cancellation_failures, \* module-wide counter
  cret,                  \* where cancel_order returns to
  last_order_price,      \* controller local
  read_price,            \* controller local: the price it obtained last
                         \* (real_price, new_price, current_real_price,
                         \* target_sell_price, new_target)
  ref_price,            \* the button price behind last_order_price
  check_count,           \* controller local
  usdt_balance,          \* controller local (get_balances)
  asset_balance,         \* controller local (get_balances)
  available_for_trade,   \* BUY controller local
  trade_amount,          \* controller local
  fieldPrice,            \* content of the limit-price input
  orders,                \* venue: sides of the open orders, row 0 first
  buyPrice,              \* venue: price on the green (BUY) button
  sellPrice,             \* venue: price on the red (SELL) button
  q,                     \* outcome of the last safe_query_selector call
  trace,                 \* interface commands of the current invocation
  cancelled,             \* a cancel click removed an order in this invocation
  sellDue,               \* in this run a BUY order was filled, or a SELL
                         \* order cancelled, and no SELL order filled since
  dataUnavail,           \* a price/balance read failed in this attempt
  preFailures,           \* cancellation_failures when cancel_order began
  preEmpty               \* no order was open when cancel_order began

mainVars == <<transaction_type, active_order_count>>
retVars == <<success, outcome>>
cancelVars == <<cancellation_failures, cret, preFailures, preEmpty>>
ctlVars == <<last_order_price, read_price, ref_price, check_count,
             usdt_balance, asset_balance, available_for_trade, trade_amount>>
pageVars == <<fieldPrice>>
venueVars == <<orders, buyPrice, sellPrice>>
histVars == <<q, trace, cancelled, sellDue, dataUnavail>>

vars == <<pc, mainVars, retVars, cancelVars, ctlVars, pageVars, venueVars,
          histVars>>

\* --------------------------------------------------------------- helpers
Opposite(side) == IF side = "buy" THEN "sell" ELSE "buy"

Count(s, x) == Cardinality({i \in 1..Len(s) : s[i] = x})

Has(s, x) == \E i \in 1..Len(s) : s[i] = x

\* safe_query_selector: the element, None when absent, None when the query
\* raises PlaywrightError (context destroyed / mid-navigation)
QueryOutcomes(os) == {IF os # <<>> THEN "found" ELSE "absent", "unavailable"}

safe_query_selector(res) == res = "found"

\* get_real_buy_price: the button text, or None on any exception
BuyPriceReads(p) == {p, NoPrice}

TargetSell_NoIncrement(price_val, increment) == price_val

\* compute_target_sell_price lines 164-170 on a readable price text
TargetSell(price_val, increment) == price_val + increment

\* Python round(): nearest, ties to even; n / d for d > 0
RoundDiv(n, d) ==
  LET fl == n \div d
      r2 == 2 * (n % d)
  IN  IF r2 < d THEN fl
      ELSE IF r2 > d THEN fl + 1
      ELSE IF fl % 2 = 0 THEN fl ELSE fl + 1

\* round(x * pct, 3), x in units of 0.0001, pct per mille
RoundAmount(x, pct) == Grain * RoundDiv(x * pct, 1000 * Grain)

\* get_balances lines 57-64: (asset_balance, usdt_balance)
get_balances(assetFirst, asset0_balance, asset1_balance) ==
  IF assetFirst THEN <<asset0_balance, asset1_balance>>
  ELSE <<asset1_balance, asset0_balance - UsdtAdjust>>

\* parse_balance lines 28-33: the figure, or 0.0 when the text does not parse
parse_balance(figure, unreadable) == IF unreadable THEN 0 ELSE figure

\* get_balances lines 48-64 on a page listing wallet w, asset row first or not
PageBalances(assetFirst, w, unreadable) ==
  IF assetFirst
  THEN get_balances(TRUE, parse_balance(w[1], unreadable),
                          parse_balance(w[2], unreadable))
  ELSE get_balances(FALSE, parse_balance(w[2], unreadable),
                           parse_balance(w[1], unreadable))

\* the controller's frame before assignment and after return: its locals, and
\* the price input, which every invocation fills again before it is read
ClearLocals ==
  /\ last_order_price' = NoPrice
  /\ read_price' = NoPrice
  /\ ref_price' = NoPrice
  /\ fieldPrice' = NoPrice
  /\ check_count' = 0
  /\ usdt_balance' = 0
  /\ asset_balance' = 0
  /\ available_for_trade' = 0
  /\ trade_amount' = 0

\* cancel_order's frame after it returned
PopCancel ==
  /\ cret' = "none"
  /\ preFailures' = 0
  /\ preEmpty' = FALSE
  /\ UNCHANGED cancellation_failures

\* the history of one invocation, forgotten once its result is consumed
ClearHistory ==
  /\ trace' = <<>>
  /\ cancelled' = FALSE
  /\ dataUnavail' = FALSE
  /\ UNCHANGED sellDue

\* the result of the previous iteration is dead at the top of the loop
ClearResult ==
  /\ success' = FALSE
  /\ outcome' = "None"

\* an exception propagates to main(): every frame below it is unwound
Unwind ==
  /\ ClearLocals
  /\ ClearResult
  /\ PopCancel
  /\ trace' = <<>>
  /\ cancelled' = FALSE
  /\ sellDue' = FALSE

\* an exception that nothing below main() catches
Crash ==
  /\ pc' = "cooldown"
  /\ Unwind
  /\ UNCHANGED <<mainVars, venueVars, q, dataUnavail>>

\* the venue record after a cancel click or a reload: a SELL order among the
\* orders `gone` was removed without being filled
AfterRemoval(removed, gone) == sellDue \/ (removed /\ Has(gone, "sell"))

\* the venue record after the order of side `side` was filled; fills outside
\* a run (browser not on the trading page) are not recorded
AfterFill(side) ==
  IF pc \in {"main", "goto", "cooldown"} THEN sellDue ELSE side = "buy"

\* ------------------------------------------------------------------ Init
Init ==
  /\ pc = "main"
  /\ transaction_type = "buy"
  /\ active_order_count = 0
  /\ success = FALSE
  /\ outcome = "None"
  /\ cancellation_failures = 0
  /\ cret = "none"
  /\ last_order_price = NoPrice
  /\ read_price = NoPrice
  /\ ref_price = NoPrice
  /\ check_count = 0
  /\ usdt_balance = 0
  /\ asset_balance = 0
  /\ available_for_trade = 0
  /\ trade_amount = 0
  /\ fieldPrice = NoPrice
  /\ orders \in {<<>>, <<"buy">>, <<"sell">>}  \* an earlier process may have left one
  /\ buyPrice \in Prices
  /\ sellPrice \in Prices
  /\ q = "absent"
  /\ trace = <<>>
  /\ cancelled = FALSE
  /\ sellDue = FALSE
  /\ dataUnavail = FALSE
  /\ preFailures = 0
  /\ preEmpty = FALSE

\* ------------------------------------------------------------------ main
\* main lines 517-519 and run_trading_loop lines 402-457: launch the browser
MainRun ==
  /\ pc = "main"
  /\ \/ /\ pc' = "goto"
        /\ UNCHANGED <<mainVars, retVars, cancelVars, ctlVars, pageVars,
                       venueVars, histVars>>
     \/ Crash

NavOk_KeepsPhase ==
  /\ pc = "goto"
  /\ \/ /\ pc' = "poll"
        /\ active_order_count' = 0
        /\ UNCHANGED <<transaction_type, retVars, cancelVars, ctlVars,
                       pageVars, venueVars, histVars>>
     \/ Crash

\* run_trading_loop lines 458-473: navigation succeeded, the loop starts
NavOk ==
  /\ pc = "goto"
  /\ \/ /\ pc' = "poll"
        /\ transaction_type' = "buy"
        /\ active_order_count' = 0
        /\ UNCHANGED <<retVars, cancelVars, ctlVars, pageVars, venueVars,
                       histVars>>
     \/ Crash

\* run_trading_loop lines 460-466: navigation failed, the function returns
NavFail ==
  /\ pc = "goto"
  /\ pc' = "main"
  /\ UNCHANGED <<mainVars, retVars, cancelVars, ctlVars, pageVars,
                 venueVars, histVars>>

\* main lines 523-526: the handler of Exception sleeps and loops
Cooldown ==
  /\ pc = "cooldown"
  /\ pc' = "main"
  /\ dataUnavail' = FALSE
  /\ UNCHANGED <<mainVars, retVars, cancelVars, ctlVars, pageVars,
                 venueVars, q, trace, cancelled, sellDue>>

\* main lines 520-522: KeyboardInterrupt ends the process
Interrupt ==
  /\ pc # "exited"
  /\ pc' = "exited"
  /\ Unwind
  /\ dataUnavail' = FALSE
  /\ UNCHANGED <<mainVars, venueVars, q>>

\* ------------------------------------------------------------ Supervisor
\* the call of cancel_order(page), returning to ret
CallCancel(ret) ==
  /\ pc' = "cancel_normal"
  /\ cret' = ret
  /\ UNCHANGED <<cancellation_failures, preFailures, preEmpty>>

StuckReached_Early(count) == count + 1 >= StuckThreshold

StuckReached_Late(count) == count > StuckThreshold

\* line 484: if active_order_count >= 3
StuckReached(count) == count >= StuckThreshold

\* run_trading_loop lines 474-495, 501-503: one poll of the active order
SupPoll ==
  /\ pc = "poll"
  /\ \E res \in QueryOutcomes(orders) :
       /\ q' = res
       /\ IF safe_query_selector(res)
          THEN /\ active_order_count' = active_order_count + 1
               /\ IF StuckReached(active_order_count + 1)
                  THEN CallCancel("sup_after_cancel")
                  ELSE /\ pc' = "poll"
                       /\ UNCHANGED cancelVars
          ELSE /\ active_order_count' = 0
               /\ pc' = IF transaction_type = "buy" THEN "buy_tabs"
                                                    ELSE "sell_tabs"
               /\ UNCHANGED cancelVars
  /\ ClearResult
  /\ UNCHANGED <<transaction_type, ctlVars, pageVars, venueVars, trace,
                 cancelled, sellDue, dataUnavail>>

\* run_trading_loop lines 486-489: cancel_order returned to the Supervisor
SupAfterCancel ==
  /\ pc = "sup_after_cancel"
  /\ active_order_count' = 0
  /\ pc' = "poll"
  /\ PopCancel
  /\ ClearHistory
  /\ UNCHANGED <<transaction_type, retVars, ctlVars, pageVars, venueVars, q>>

\* run_trading_loop lines 496-510: the controller returned `success`
SupResult ==
  /\ pc = "sup_result"
  /\ pc' = "poll"
  /\ IF success
     THEN \E res \in QueryOutcomes(orders) :
            /\ q' = res
            /\ transaction_type' =
                 IF ~safe_query_selector(res)
                 THEN (IF transaction_type = "buy" THEN "sell" ELSE "buy")
                 ELSE transaction_type
     ELSE UNCHANGED <<q, transaction_type>>
  /\ ClearLocals
  /\ ClearHistory
  /\ UNCHANGED <<active_order_count, retVars, cancelVars, venueVars>>

\* ---------------------------------------------------------- cancel_order
AfterNormalCancel_AlwaysForce(clicked) == "cancel_force"

\* lines 101, 108, 111: the forced cancel runs in the except branch only
AfterNormalCancel(clicked) ==
  IF clicked THEN "cancel_recheck" ELSE "cancel_force"

\* lines 101-110: the normal interactive cancel (wait visible, click)
CancelNormal ==
  /\ pc = "cancel_normal"
  /\ cancellation_failures <= MaxFailures
  /\ preFailures' = cancellation_failures
  /\ preEmpty' = (orders = <<>>)
  /\ \/ /\ orders # <<>>
        /\ trace' = Append(trace, "cancel_normal")
        /\ cancellation_failures' = 0
        /\ \E removed \in BOOLEAN :
             /\ orders' = IF removed THEN Tail(orders) ELSE orders
             /\ cancelled' = (cancelled \/ removed)
             /\ sellDue' = AfterRemoval(removed, <<Head(orders)>>)
        /\ pc' = AfterNormalCancel(TRUE)
     \/ /\ trace' = Append(trace, "cancel_normal_failed")
        /\ cancellation_failures' = cancellation_failures + 1
        /\ pc' = AfterNormalCancel(FALSE)
        /\ UNCHANGED <<orders, cancelled, sellDue>>
  /\ UNCHANGED <<mainVars, retVars, cret, ctlVars, pageVars, buyPrice,
                 sellPrice, q, dataUnavail>>

\* lines 111-119: the forced cancel (click through page.evaluate)
CancelForce ==
  /\ pc = "cancel_force"
  /\ \/ /\ orders # <<>>
        /\ trace' = Append(trace, "cancel_forced")
        /\ cancellation_failures' = 0
        /\ \E removed \in BOOLEAN :
             /\ orders' = IF removed THEN Tail(orders) ELSE orders
             /\ cancelled' = (cancelled \/ removed)
             /\ sellDue' = AfterRemoval(removed, <<Head(orders)>>)
     \/ /\ trace' = Append(trace, "cancel_forced_failed")
        /\ cancellation_failures' = cancellation_failures + 1
        /\ UNCHANGED <<orders, cancelled, sellDue>>
  /\ pc' = "cancel_recheck"
  /\ UNCHANGED <<mainVars, retVars, cret, preFailures, preEmpty, ctlVars,
                 pageVars, buyPrice, sellPrice, q, dataUnavail>>

ReloadNeeded_Always(res) == TRUE

ReloadNeeded_Never(res) == FALSE

\* line 123: if active_order
ReloadNeeded(res) == safe_query_selector(res)

\* lines 121-126: re-check the order, reload if it is still there, return
CancelRecheck ==
  /\ pc = "cancel_recheck"
  /\ \/ \E res \in QueryOutcomes(orders) :
          /\ q' = res
          /\ pc' = cret
          /\ IF ReloadNeeded(res)
             THEN /\ trace' = Append(trace, "reload")
                  /\ cancellation_failures' = 0
                  /\ \E cleared \in BOOLEAN :
                       /\ orders' = IF cleared THEN <<>> ELSE orders
                       /\ sellDue' = AfterRemoval(cleared, orders)
             ELSE UNCHANGED <<trace, cancellation_failures, orders,
                              sellDue>>
          /\ UNCHANGED <<mainVars, retVars, cret, preFailures, preEmpty,
                         ctlVars, pageVars, buyPrice, sellPrice, cancelled,
                         dataUnavail>>
     \/ /\ orders # <<>>
        /\ Crash

\* ------------------------------------------------- controller building blocks
\* a price or balance read raised an exception nothing below main() catches
CrashUnavail ==
  /\ pc' = "cooldown"
  /\ dataUnavail' = TRUE
  /\ Unwind
  /\ UNCHANGED <<mainVars, venueVars, q>>

\* `return ok` of a controller, through the return site named by site
Return(ok, site) ==
  /\ success' = ok
  /\ outcome' = site
  /\ pc' = "sup_result"

PriceChanged_Never(new, last) == FALSE

\* lines 223, 301: if new_price and new_price != last_order_price
PriceChanged(new, last) == new # NoPrice /\ new # last

ChecksRemain_OneMore(count) == count <= MaxChecks

\* lines 232, 309: while check_count < 3
ChecksRemain(count) == count < MaxChecks

\* click_element on the submit button: the venue books the order or not.
\* The balances and the amount are not read after this line (the amount went
\* into the form at lines 218, 296), so they leave the state here; the
\* outcome of the test at line 208 stays on record in available_for_trade.
Submit(side) ==
  /\ trace' = Append(trace, "submit")
  /\ check_count' = 0
  /\ usdt_balance' = 0
  /\ asset_balance' = 0
  /\ trade_amount' = 0
  /\ \E booked \in BOOLEAN :
       orders' = IF booked /\ Len(orders) < MaxOrders
                 THEN Append(orders, side) ELSE orders

\* ------------------------------------------------- trade_limit_buy_asset
\* lines 185-186: BUY tab, limit tab
BuySelectMode ==
  /\ pc = "buy_tabs"
  /\ \/ /\ trace' = trace \o <<"selectSide_buy", "selectLimitMode">>
        /\ pc' = "buy_price"
        /\ UNCHANGED <<mainVars, retVars, cancelVars, ctlVars, pageVars,
                       venueVars, q, cancelled, sellDue, dataUnavail>>
     \/ Crash

\* lines 188-200: price discovery and the first fill of the price input
BuyDiscovery ==
  /\ pc = "buy_price"
  /\ \/ \E real_price \in BuyPriceReads(buyPrice) :
          IF real_price = NoPrice
          THEN /\ Return(FALSE, "Aborted")
               /\ dataUnavail' = TRUE
               /\ UNCHANGED <<mainVars, cancelVars, ctlVars, pageVars,
                              venueVars, q, trace, cancelled, sellDue>>
          ELSE /\ last_order_price' = real_price
               /\ read_price' = real_price
               /\ ref_price' = real_price
               /\ fieldPrice' = real_price
               /\ trace' = Append(trace, "setPrice")
               /\ pc' = "buy_size"
               /\ UNCHANGED <<mainVars, retVars, cancelVars, check_count,
                              usdt_balance, asset_balance,
                              available_for_trade, trade_amount,
                              venueVars, q, cancelled, sellDue,
                              dataUnavail>>
     \/ Crash

InsufficientFunds_Strict(avail) == avail < 0

\* line 208: if available_for_trade <= 0
InsufficientFunds(avail) == avail <= 0

\* lines 202-219: balances, sizing, the fill of the notional input, on a page
\* showing one of the wallets ws and with the deduction drawn from ds
BuySizingOn(ws, ds) ==
  /\ pc = "buy_size"
  /\ \/ \E assetFirst \in BOOLEAN, w \in ws, unreadable \in BOOLEAN,
          random_percent \in Pcts, deduction \in ds :
          LET b == PageBalances(assetFirst, w, unreadable)
              avail == b[2] - deduction
          IN  /\ asset_balance' = b[1]
              /\ usdt_balance' = b[2]
              /\ available_for_trade' = avail
              /\ dataUnavail' = (dataUnavail \/ unreadable)
              /\ IF InsufficientFunds(avail)
                 THEN /\ Return(FALSE, "Aborted")
                      /\ UNCHANGED <<trade_amount, trace>>
                 ELSE /\ trade_amount' = RoundAmount(avail, random_percent)
                      /\ trace' = Append(trace, "setSize")
                      /\ pc' = "buy_revalidate"
                      /\ UNCHANGED retVars
              /\ UNCHANGED <<mainVars, cancelVars, last_order_price,
                             read_price, ref_price, check_count, fieldPrice,
                             venueVars, q, cancelled, sellDue>>
     \/ CrashUnavail
     \/ Crash

BuySizing == BuySizingOn(Wallets, Deductions)

\* lines 221-227: re-read the price before submission
BuyRevalidate ==
  /\ pc = "buy_revalidate"
  /\ \/ \E new_price \in BuyPriceReads(buyPrice) :
          /\ read_price' = new_price
          /\ IF PriceChanged(new_price, last_order_price)
             THEN /\ fieldPrice' = new_price
                  /\ last_order_price' = new_price
                  /\ ref_price' = new_price
                  /\ trace' = Append(trace, "setPrice")
             ELSE UNCHANGED <<fieldPrice, last_order_price, ref_price,
                              trace>>
          /\ dataUnavail' = (dataUnavail \/ new_price = NoPrice)
          /\ pc' = "buy_submit"
          /\ UNCHANGED <<mainVars, retVars, cancelVars, check_count,
                         usdt_balance, asset_balance, available_for_trade,
                         trade_amount, venueVars, q, cancelled, sellDue>>
     \/ Crash

\* lines 229-232: submit
BuySubmit ==
  /\ pc = "buy_submit"
  /\ \/ /\ Submit("buy")
        /\ pc' = "buy_check"
        /\ UNCHANGED <<mainVars, retVars, cancelVars, last_order_price,
                       read_price, ref_price, available_for_trade, pageVars,
                       buyPrice, sellPrice, q, cancelled, sellDue,
                       dataUnavail>>
     \/ Crash

\* lines 233-248: one observation check
BuyCheck ==
  /\ pc = "buy_check"
  /\ ChecksRemain(check_count)
  /\ \/ \E res \in QueryOutcomes(orders) :
          /\ q' = res
          /\ IF ~safe_query_selector(res)
             THEN /\ trace' = Append(trace, "selectSide_buy")
                  /\ Return(TRUE, "Filled")
                  /\ UNCHANGED <<cancelVars, check_count, read_price,
                                 dataUnavail>>
             ELSE \E current_real_price \in BuyPriceReads(buyPrice) :
                    /\ read_price' = current_real_price
                    /\ dataUnavail' =
                         (dataUnavail \/ current_real_price = NoPrice)
                    /\ IF current_real_price # last_order_price
                       THEN /\ CallCancel("buy_drift")
                            /\ UNCHANGED check_count
                       ELSE /\ check_count' = check_count + 1
                            /\ IF ChecksRemain(check_count + 1)
                               THEN /\ pc' = "buy_check"
                                    /\ UNCHANGED cancelVars
                               ELSE CallCancel("buy_timeout")
                    /\ UNCHANGED <<retVars, trace>>
          /\ UNCHANGED <<mainVars, last_order_price, ref_price, usdt_balance,
                         asset_balance, available_for_trade, trade_amount,
                         pageVars, venueVars, cancelled, sellDue>>
     \/ Crash

\* lines 243-245: cancel_order returned after a price change
BuyAfterDrift ==
  /\ pc = "buy_drift"
  /\ \/ /\ trace' = Append(trace, "selectSide_buy")
        /\ Return(FALSE, "CancelledPriceDrift")
        /\ PopCancel
        /\ UNCHANGED <<mainVars, ctlVars, pageVars, venueVars, q, cancelled,
                       sellDue, dataUnavail>>
     \/ Crash

\* lines 250-253: cancel_order returned after the third unchanged check
BuyAfterTimeout ==
  /\ pc = "buy_timeout"
  /\ \/ /\ trace' = Append(trace, "selectSide_buy")
        /\ Return(FALSE, "CancelledTimeout")
        /\ PopCancel
        /\ UNCHANGED <<mainVars, ctlVars, pageVars, venueVars, q, cancelled,
                       sellDue, dataUnavail>>
     \/ Crash

\* ------------------------------------------------ trade_limit_sell_asset
\* compute_target_sell_price, when wait_for_selector does not raise: None on
\* an empty or non-numeric text, else the price plus a random increment
SellTargetReads(p) == {NoPrice} \cup {TargetSell(p, inc) : inc \in Increments}

\* lines 267-269: SELL tab, limit tab, SELL tab again
SellSelectMode ==
  /\ pc = "sell_tabs"
  /\ \/ /\ trace' = trace \o
                      <<"selectSide_sell", "selectLimitMode", "selectSide_sell">>
        /\ pc' = "sell_price"
        /\ UNCHANGED <<mainVars, retVars, cancelVars, ctlVars, pageVars,
                       venueVars, q, cancelled, sellDue, dataUnavail>>
     \/ Crash

\* lines 271-283: target discovery and the first fill of the price input
SellDiscovery ==
  /\ pc = "sell_price"
  /\ \/ \E target_sell_price \in SellTargetReads(sellPrice) :
          IF target_sell_price = NoPrice
          THEN /\ Return(FALSE, "Aborted")
               /\ dataUnavail' = TRUE
               /\ UNCHANGED <<mainVars, cancelVars, ctlVars, pageVars,
                              venueVars, q, trace, cancelled, sellDue>>
          ELSE /\ last_order_price' = target_sell_price
               /\ read_price' = target_sell_price
               /\ ref_price' = sellPrice
               /\ fieldPrice' = target_sell_price
               /\ trace' = Append(trace, "setPrice")
               /\ pc' = "sell_size"
               /\ UNCHANGED <<mainVars, retVars, cancelVars, check_count,
                              usdt_balance, asset_balance,
                              available_for_trade, trade_amount,
                              venueVars, q, cancelled, sellDue,
                              dataUnavail>>
     \/ CrashUnavail
     \/ Crash

\* lines 285-297: balances, sizing, the fill of the size input, on a page
\* showing one of the wallets ws
SellSizingOn(ws) ==
  /\ pc = "sell_size"
  /\ \/ \E assetFirst \in BOOLEAN, w \in ws, unreadable \in BOOLEAN,
          random_percent \in Pcts :
          LET b == PageBalances(assetFirst, w, unreadable)
          IN  /\ asset_balance' = b[1]
              /\ usdt_balance' = b[2]
              /\ dataUnavail' = (dataUnavail \/ unreadable)
              /\ trade_amount' = RoundAmount(b[1], random_percent)
              /\ trace' = Append(trace, "setSize")
              /\ pc' = "sell_revalidate"
              /\ UNCHANGED <<mainVars, retVars, cancelVars, last_order_price,
                             read_price, ref_price, check_count,
                             available_for_trade, fieldPrice, venueVars, q,
                             cancelled, sellDue>>
     \/ CrashUnavail
     \/ Crash

SellSizing == SellSizingOn(Wallets)

\* lines 299-305: recompute the target before submission
SellRevalidate ==
  /\ pc = "sell_revalidate"
  /\ \/ \E new_target \in SellTargetReads(sellPrice) :
          /\ read_price' = new_target
          /\ IF PriceChanged(new_target, last_order_price)
             THEN /\ fieldPrice' = new_target
                  /\ last_order_price' = new_target
                  /\ ref_price' = sellPrice
                  /\ trace' = Append(trace, "setPrice")
             ELSE UNCHANGED <<fieldPrice, last_order_price, ref_price,
                              trace>>
          /\ dataUnavail' = (dataUnavail \/ new_target = NoPrice)
          /\ pc' = "sell_submit"
          /\ UNCHANGED <<mainVars, retVars, cancelVars, check_count,
                         usdt_balance, asset_balance, available_for_trade,
                         trade_amount, venueVars, q, cancelled, sellDue>>
     \/ CrashUnavail
     \/ Crash

\* lines 307-310: submit
SellSubmit ==
  /\ pc = "sell_submit"
  /\ \/ /\ Submit("sell")
        /\ pc' = "sell_check"
        /\ UNCHANGED <<mainVars, retVars, cancelVars, last_order_price,
                       read_price, ref_price, available_for_trade, pageVars,
                       buyPrice, sellPrice, q, cancelled, sellDue,
                       dataUnavail>>
     \/ Crash

\* lines 311-322, 333-335: one observation check
SellCheck ==
  /\ pc = "sell_check"
  /\ ChecksRemain(check_count)
  /\ \/ \E res \in QueryOutcomes(orders) :
          /\ q' = res
          /\ IF ~safe_query_selector(res)
             THEN /\ trace' = Append(trace, "selectSide_sell")
                  /\ Return(TRUE, "Filled")
                  /\ UNCHANGED <<cancelVars, check_count, read_price,
                                 dataUnavail>>
             ELSE \E new_target \in SellTargetReads(sellPrice) :
                    /\ read_price' = new_target
                    /\ dataUnavail' = (dataUnavail \/ new_target = NoPrice)
                    /\ IF new_target # last_order_price
                       THEN /\ CallCancel("sell_drift")
                            /\ UNCHANGED check_count
                       ELSE /\ check_count' = check_count + 1
                            /\ IF ChecksRemain(check_count + 1)
                               THEN /\ pc' = "sell_check"
                                    /\ UNCHANGED cancelVars
                               ELSE CallCancel("sell_timeout")
                    /\ UNCHANGED <<retVars, trace>>
          /\ UNCHANGED <<mainVars, last_order_price, ref_price, usdt_balance,
                         asset_balance, available_for_trade, trade_amount,
                         pageVars, venueVars, cancelled, sellDue>>
     \/ /\ orders # <<>>
        /\ CrashUnavail
     \/ Crash

SellFollowupReturn_AsBuy(res) == Return(FALSE, "CancelledPriceDrift")

\* lines 326-332: the result of the follow-up check decides the return value
SellFollowupReturn(res) ==
  IF ~safe_query_selector(res)
  THEN Return(TRUE, "FillEquivalent")
  ELSE Return(FALSE, "CancelledPriceDrift")

\* lines 323-332: cancel_order returned after a target change; follow-up check
SellFollowup ==
  /\ pc = "sell_drift"
  /\ \/ \E res \in QueryOutcomes(orders) :
          /\ q' = res
          /\ trace' = Append(trace, "selectSide_sell")
          /\ SellFollowupReturn(res)
          /\ PopCancel
          /\ UNCHANGED <<mainVars, ctlVars, pageVars, venueVars, cancelled,
                         sellDue, dataUnavail>>
     \/ Crash

\* lines 337-340: cancel_order returned after the third unchanged check
SellAfterTimeout ==
  /\ pc = "sell_timeout"
  /\ \/ /\ trace' = Append(trace, "selectSide_sell")
        /\ Return(FALSE, "CancelledTimeout")
        /\ PopCancel
        /\ UNCHANGED <<mainVars, ctlVars, pageVars, venueVars, q, cancelled,
                       sellDue, dataUnavail>>
     \/ Crash

\* ----------------------------------------------------------------- venue
\* the market moves the price shown on the BUY button
BuyPriceMove ==
  /\ pc # "exited"
  /\ \E p \in Prices \ {buyPrice} : buyPrice' = p
  /\ UNCHANGED <<pc, mainVars, retVars, cancelVars, ctlVars, pageVars,
                 orders, sellPrice, histVars>>

\* the market moves the price shown on the SELL button
SellPriceMove ==
  /\ pc # "exited"
  /\ \E p \in Prices \ {sellPrice} : sellPrice' = p
  /\ UNCHANGED <<pc, mainVars, retVars, cancelVars, ctlVars, pageVars,
                 orders, buyPrice, histVars>>

\* the venue fills one of the open orders
OrderFill ==
  /\ pc # "exited"
  /\ \E i \in 1..Len(orders) :
       /\ orders' =
            SubSeq(orders, 1, i - 1) \o SubSeq(orders, i + 1, Len(orders))
       /\ sellDue' = AfterFill(orders[i])
  /\ UNCHANGED <<pc, mainVars, retVars, cancelVars, ctlVars, pageVars,
                 buyPrice, sellPrice, q, trace, cancelled, dataUnavail>>

\* ------------------------------------------------------------------ Spec
Next ==
  \/ MainRun \/ NavOk \/ NavFail \/ Cooldown \/ Interrupt
  \/ SupPoll \/ SupAfterCancel \/ SupResult
  \/ CancelNormal \/ CancelForce \/ CancelRecheck
  \/ BuySelectMode \/ BuyDiscovery \/ BuySizing \/ BuyRevalidate
  \/ BuySubmit \/ BuyCheck \/ BuyAfterDrift \/ BuyAfterTimeout
  \/ SellSelectMode \/ SellDiscovery \/ SellSizing \/ SellRevalidate
  \/ SellSubmit \/ SellCheck \/ SellFollowup \/ SellAfterTimeout
  \/ BuyPriceMove \/ SellPriceMove \/ OrderFill

Spec == Init /\ [][Next]_vars

TypeOK ==
  /\ transaction_type \in {"buy", "sell"}
  /\ active_order_count \in 0..StuckThreshold
  /\ check_count \in 0..MaxChecks
  /\ Len(orders) <= MaxOrders
  /\ cancellation_failures \in 0..(MaxFailures + 2)

\* ---------------------------------------------------------------- claims
ControllerReturned == pc = "sup_result"

\* the step in which the Supervisor consumes the controller's result
ResultStep == pc = "sup_result" /\ pc' = "poll"

\* the step in which the Supervisor polls the active order
PollStep ==
  /\ pc = "poll"
  /\ pc' # "exited"
  /\ (pc' # "poll" \/ active_order_count' # active_order_count)

\* a controller clicks the submit button
SubmitStep ==
  \/ pc = "buy_submit" /\ pc' = "buy_check"
  \/ pc = "sell_submit" /\ pc' = "sell_check"

DriftSites == {"FillEquivalent", "CancelledPriceDrift"}

\* C1 (as claimed): when the Supervisor consumes a controller result, a
\* Filled result (success) always flips Phase to the opposite side and any
\* other result leaves Phase unchanged.
C1_PhaseAlternation ==
  [][ResultStep =>
       transaction_type' = IF success THEN Opposite(transaction_type)
                                     ELSE transaction_type]_vars

\* C2 (as claimed): a SELL attempt that left through the drift branch after a
\* cancel click removed the order reports CancelledPriceDrift (not filled)
\* and Phase stays SELL; the fill-equivalent result is produced only when
\* both the normal and the forced cancel attempt failed.
C2_SellDriftCancelIsNotAFill ==
  [][(ResultStep /\ transaction_type = "sell" /\ outcome \in DriftSites) =>
       /\ cancelled =>
            (outcome = "CancelledPriceDrift" /\ ~success
               /\ transaction_type' = "sell")
       /\ outcome = "FillEquivalent" =>
            (Has(trace, "cancel_normal_failed")
               /\ Has(trace, "cancel_forced_failed"))]_vars

\* C3 (as claimed): submit is never clicked while an order is open on the
\* venue, so the venue never holds more than one open order.
C3_NoSubmitWhileActive ==
  /\ [](Len(orders) <= 1)
  /\ [][SubmitStep => orders = <<>>]_vars

\* C4: a poll that observes no active order sets the counter to 0 and starts
\* the controller; a poll that observes one adds exactly 1, does not start
\* the controller, and calls cancel_order exactly when the counter reaches 3;
\* the counter is 0 again once that cancel_order has returned; at the start
\* of a poll the counter is in 0..2.
C4_StuckOrderCounter ==
  /\ [](pc = "poll" => active_order_count \in 0..2)
  /\ [][PollStep =>
         IF q' = "found"
         THEN /\ active_order_count' = active_order_count + 1
              /\ pc' \in {"poll", "cancel_normal"}
              /\ (pc' = "cancel_normal") = (active_order_count' = 3)
              /\ (pc' = "cancel_normal") => (cret' = "sup_after_cancel")
         ELSE /\ active_order_count' = 0
              /\ pc' \in {"buy_tabs", "sell_tabs"}]_vars
  /\ [][(pc = "sup_after_cancel" /\ pc' = "poll") =>
         active_order_count' = 0]_vars

\* C4 witness: the third consecutive observation has just called cancel_order
C4_Witness ==
  pc = "cancel_normal" /\ cret = "sup_after_cancel" /\ active_order_count = 3

\* C5 (as claimed): once a price or balance read of an attempt has failed,
\* the attempt has ended as Aborted with no submit and no cancel performed,
\* and no failure has reached main().
C5_UnavailableDataAborts ==
  dataUnavail =>
    /\ ControllerReturned
    /\ outcome = "Aborted"
    /\ ~Has(trace, "submit")
    /\ \A i \in 1..Len(trace) :
         trace[i] \notin {"cancel_normal", "cancel_normal_failed",
                          "cancel_forced", "cancel_forced_failed", "reload"}

\* a BUY attempt that reached sizing and found quoteFree - deduction <= 0
BuyInsufficientFunds ==
  /\ ControllerReturned
  /\ transaction_type = "buy"
  /\ last_order_price # NoPrice
  /\ available_for_trade <= 0

\* C6 (as claimed): a BUY attempt that finds quoteFree - deduction <= 0
\* resolves Aborted and has issued no interface command at all.
C6_InsufficientFundsNoCommand ==
  BuyInsufficientFunds => (outcome = "Aborted" /\ trace = <<>>)

\* C6 (amended): a BUY attempt that finds quoteFree - deduction <= 0 resolves
\* Aborted having issued exactly selectSide(BUY), selectLimitMode and
\* setPrice: no setSize, submit, cancel or reload.
C6_InsufficientFundsNoOrder ==
  BuyInsufficientFunds =>
    /\ outcome = "Aborted"
    /\ ~success
    /\ trace = <<"selectSide_buy", "selectLimitMode", "setPrice">>

\* C6 witness: a BUY attempt has aborted on insufficient funds
C6_Witness == BuyInsufficientFunds /\ outcome = "Aborted"

\* the entries cancel_order logs for its normal and its forced attempt
NormalAttempts(t) == Count(t, "cancel_normal") + Count(t, "cancel_normal_failed")

ForcedAttempts(t) == Count(t, "cancel_forced") + Count(t, "cancel_forced_failed")

\* C7: a BUY check that finds the order still open while the BUY price
\* differs from the submitted price calls cancel_order for drift; that
\* invocation ends as CancelledPriceDrift (not filled) with cancel_order
\* called exactly once, the forced path untouched when the normal click
\* succeeded, and the Supervisor then leaves Phase at BUY.
C7_BuyDriftCancelsOnce ==
  /\ [][(pc = "buy_check" /\ pc' \notin {"buy_check", "cooldown", "exited"}
           /\ q' = "found" /\ buyPrice # last_order_price) =>
         (pc' = "cancel_normal" /\ cret' = "buy_drift")]_vars
  /\ [][(pc = "buy_drift" /\ pc' \notin {"buy_drift", "cooldown", "exited"}) =>
         (pc' = "sup_result" /\ outcome' = "CancelledPriceDrift"
            /\ ~success')]_vars
  /\ []((ControllerReturned /\ transaction_type = "buy"
           /\ outcome = "CancelledPriceDrift") =>
          /\ NormalAttempts(trace) = 1
          /\ ForcedAttempts(trace) <= 1
          /\ Has(trace, "cancel_normal") => ForcedAttempts(trace) = 0)
  /\ [][(ResultStep /\ transaction_type = "buy"
           /\ outcome = "CancelledPriceDrift") =>
         transaction_type' = "buy"]_vars

\* C7 witness: a BUY attempt ended on drift after one successful normal cancel
C7_Witness ==
  /\ ControllerReturned
  /\ transaction_type = "buy"
  /\ outcome = "CancelledPriceDrift"
  /\ Has(trace, "cancel_normal")

\* a SELL attempt whose drift cancel failed on both paths and whose follow-up
\* check established that no order is open
SellAmbiguousCancel ==
  /\ ControllerReturned
  /\ transaction_type = "sell"
  /\ outcome \in DriftSites
  /\ Has(trace, "cancel_normal_failed")
  /\ Has(trace, "cancel_forced_failed")
  /\ q = "absent"

\* C8: a SELL attempt in which drift was detected, both cancel paths failed
\* and the follow-up check found no open order resolves as a fill (success),
\* not as CancelledPriceDrift, and the Supervisor then flips SELL -> BUY.
C8_SellAmbiguousCancelIsFill ==
  /\ [](SellAmbiguousCancel => (success /\ outcome = "FillEquivalent"))
  /\ [][(ResultStep /\ SellAmbiguousCancel) => transaction_type' = "buy"]_vars

\* C8 witness: such a SELL attempt has returned success to the Supervisor
C8_Witness == SellAmbiguousCancel /\ success /\ outcome = "FillEquivalent"

\* cancel_order has returned to its caller
CancelReturned ==
  pc \in {"sup_after_cancel", "buy_drift", "buy_timeout", "sell_drift",
          "sell_timeout"}

InCancel == pc \in {"cancel_force", "cancel_recheck"}

\* C9 (as claimed): cancel_order called with no open order raises nothing,
\* reloads nothing and returns with the failure counter as it was.
C9_CancelWithoutOrderIsNoOp ==
  (CancelReturned /\ preEmpty) =>
    (cancellation_failures = preFailures /\ ~Has(trace, "reload"))

\* C9 (amended): cancel_order called with no open order raises nothing,
\* reloads nothing and leaves the venue without an order, but counts two
\* failures: the failure counter is 2 higher on return, so a repeated call
\* does not give the same state.
C9_CancelWithoutOrderCountsTwo ==
  /\ []((CancelReturned /\ preEmpty) =>
          /\ cancellation_failures = preFailures + 2
          /\ ~Has(trace, "reload")
          /\ orders = <<>>)
  /\ [][(InCancel /\ preEmpty) => pc' # "cooldown"]_vars

\* C9 witness: a second call without an open order has returned
C9_Witness == CancelReturned /\ preEmpty /\ preFailures = 2

LoopStates == {"main", "goto", "cooldown", "exited"}

\* C10: a failure that reaches main() is followed by the cool-down and a new
\* run_trading_loop; the trading loop is only ever entered from a successful
\* navigation, with Phase = BUY and the stuck-order counter 0; after a manual
\* interruption the process stays terminated.
C10_CrashRecovery ==
  /\ [][pc = "cooldown" => pc' \in {"cooldown", "main", "exited"}]_vars
  /\ [][pc = "main" => pc' \in {"main", "goto", "cooldown", "exited"}]_vars
  /\ [][(pc \in LoopStates /\ pc' \notin LoopStates) =>
         (pc = "goto" /\ pc' = "poll" /\ transaction_type' = "buy"
            /\ active_order_count' = 0)]_vars
  /\ [][pc = "exited" => pc' = "exited"]_vars

\* C10 witness: a run that crashed in the SELL phase is about to start again
C10_Witness == pc = "goto" /\ transaction_type = "sell"

\* ------------------------------------------------------------------- C11
\* C11: a run that ended is followed by the cool-down wait before the next
\* run starts: main's loop is re-entered from the cool-down step only, also
\* after the initial page navigation failed
C11_RestartAfterCooldown ==
  [][(pc # "main" /\ pc' = "main") => pc = "cooldown"]_vars

\* ------------------------------------------------------- sizing in detail
\* The sizing step of both controllers on wallets and deductions that are not
\* multiples of 0.001: the free balances range over the figures up to MaxDust
\* units of 0.0001 (the quote balance as far above the largest deduction).
MaxDust == 12

DustWallets ==
  {<<a, DedHi + UsdtAdjust + u>> : a \in 0..MaxDust, u \in 0..MaxDust}

\* random.uniform(1, 2) is continuous: the ends of the band, and the values
\* that leave no more than MaxDust units of the adjusted quote balance
DustDeductions == {DedLo} \cup {DedHi - d : d \in 0..MaxDust}

\* the controller has selected its tabs and filled the price input
SizingInit ==
  /\ buyPrice \in Prices
  /\ sellPrice \in Prices
  /\ \/ /\ pc = "buy_size"
        /\ transaction_type = "buy"
        /\ trace = <<"selectSide_buy", "selectLimitMode", "setPrice">>
        /\ last_order_price = buyPrice
        /\ ref_price = buyPrice
     \/ /\ pc = "sell_size"
        /\ transaction_type = "sell"
        /\ trace = <<"selectSide_sell", "selectLimitMode",
                     "selectSide_sell", "setPrice">>
        /\ ref_price = sellPrice
        /\ \E inc \in Increments :
             last_order_price = TargetSell(sellPrice, inc)
  /\ fieldPrice = last_order_price
  /\ read_price = last_order_price
  /\ active_order_count = 0
  /\ success = FALSE
  /\ outcome = "None"
  /\ cancellation_failures = 0
  /\ cret = "none"
  /\ check_count = 0
  /\ usdt_balance = 0
  /\ asset_balance = 0
  /\ available_for_trade = 0
  /\ trade_amount = 0
  /\ orders = <<>>
  /\ q = "absent"
  /\ cancelled = FALSE
  /\ sellDue = FALSE
  /\ dataUnavail = FALSE
  /\ preFailures = 0
  /\ preEmpty = FALSE

SizingNext ==
  \/ BuySizingOn(DustWallets, DustDeductions)
  \/ SellSizingOn(DustWallets)

SizingSpec == SizingInit /\ [][SizingNext]_vars

\* the controller states in which the size input holds trade_amount
BuySized == pc \in {"buy_revalidate", "buy_submit"}

SellSized == pc \in {"sell_revalidate", "sell_submit"}

\* ------------------------------------------------------------------- C12
\* C12: whenever the BUY controller has sized an order, quoteFree - deduction
\* was positive and the rounded trade amount is strictly positive and at most
\* quoteFree; a BUY attempt that found quoteFree - deduction <= 0 has
\* returned Aborted without a submit
C12_BuyAmountPositive ==
  /\ BuySized =>
       /\ available_for_trade > 0
       /\ trade_amount > 0
       /\ trade_amount <= usdt_balance
  /\ (transaction_type = "buy" /\ pc = "sup_result" /\ outcome = "Aborted"
      /\ Has(trace, "setPrice")) =>
       /\ available_for_trade <= 0
       /\ ~Has(trace, "submit")

\* ------------------------------------------------------------------- C13
\* C13: whenever the SELL controller has sized an order, the rounded trade
\* amount is at most the free asset balance
C13_SellAmountCovered == SellSized => trade_amount <= asset_balance

\* ------------------------------------------------------------------- C14
\* a step in which compute_target_sell_price returned a target: at discovery,
\* at the pre-submit re-validation or at an observation check
TargetComputed ==
  /\ pc \in {"sell_price", "sell_revalidate", "sell_check"}
  /\ pc' \notin {"cooldown", "exited"}
  /\ (pc' # pc \/ check_count' # check_count)
  /\ (pc = "sell_check" => q' = "found")
  /\ read_price' # NoPrice

DriftCancelStep ==
  /\ pc \in {"buy_check", "sell_check"}
  /\ pc' = "cancel_normal"
  /\ cret' \in {"buy_drift", "sell_drift"}

\* C15: an observation check cancels for price drift only if the side's
\* reference price (the BUY button for BUY, the SELL button for SELL) differs
\* from the one the submitted price was taken from; while it is the same the
\* check counts and the loop goes on
C15_DriftOnlyWhenReferenceMoved ==
  [][DriftCancelStep =>
       (IF pc = "buy_check" THEN buyPrice ELSE sellPrice) # ref_price]_vars

\* ------------------------------------------------------------------- C16
\* an observation check returned True through the "no active order" branch
FilledStep ==
  /\ pc \in {"buy_check", "sell_check"}
  /\ pc' = "sup_result"
  /\ outcome' = "Filled"

\* the Supervisor's poll reset the counter and started a controller
ProceedStep ==
  /\ pc = "poll"
  /\ pc' \in {"buy_tabs", "sell_tabs"}

\* C16: a controller resolves Filled, and the Supervisor resets the counter
\* and proceeds to a new order, only on a query that established that no
\* order is active, never on a query that could not be evaluated
C16_FilledOnlyWhenEstablished ==
  [][(FilledStep \/ ProceedStep) => q' = "absent"]_vars

\* ------------------------------------------------------------------- C17
\* a step of cancel_order taken from position p (not the process ending)
CancelStepFrom(p) == pc = p /\ pc' \notin {p, "exited"}

Last(t) == t[Len(t)]

\* exactly one interface command was issued in the step
OneCommand == Len(trace') = Len(trace) + 1

\* C17: cancel_order attempts the normal cancel first; the forced cancel is
\* attempted if and only if the normal attempt failed; either path leads to
\* the one re-check, which is the only way out; the page is reloaded if and
\* only if the re-check observes an order; failed attempts are never raised
\* (only the reload itself can fail)
C17_CancelOrdering ==
  /\ [][CancelStepFrom("cancel_normal") =>
          /\ OneCommand
          /\ Last(trace') \in {"cancel_normal", "cancel_normal_failed"}
          /\ pc' = IF Last(trace') = "cancel_normal_failed"
                   THEN "cancel_force" ELSE "cancel_recheck"]_vars
  /\ [][CancelStepFrom("cancel_force") =>
          /\ Last(trace) = "cancel_normal_failed"
          /\ OneCommand
          /\ Last(trace') \in {"cancel_forced", "cancel_forced_failed"}
          /\ pc' = "cancel_recheck"]_vars
  /\ [][CancelStepFrom("cancel_recheck") =>
          \/ /\ pc' = cret
             /\ IF q' = "found"
                THEN OneCommand /\ Last(trace') = "reload"
                ELSE trace' = trace
          \/ /\ pc' = "cooldown"
             /\ orders # <<>>]_vars
  /\ [](CancelReturned =>
          /\ NormalAttempts(trace) = 1
          /\ ForcedAttempts(trace) = Count(trace, "cancel_normal_failed")
          /\ Count(trace, "reload") = (IF q = "found" THEN 1 ELSE 0))

\* C17 witness: both attempts failed, the re-check observed the order, the
\* page was reloaded and cancel_order returned
C17_Witness ==
  /\ CancelReturned
  /\ Has(trace, "cancel_normal_failed")
  /\ Has(trace, "cancel_forced_failed")
  /\ Last(trace) = "reload"

\* ------------------------------------------------------------------- C18
\* one observation check of a controller that neither crashed nor was
\* interrupted
ObservationStep ==
  /\ pc \in {"buy_check", "sell_check"}
  /\ pc' \notin {"cooldown", "exited"}
  /\ (pc' # pc \/ check_count' # check_count)

TimeoutSites == {"buy_timeout", "sell_timeout"}

RevalidateStep ==
  \/ pc = "buy_revalidate" /\ pc' = "buy_submit"
  \/ pc = "sell_revalidate" /\ pc' = "sell_submit"

C20_EndsOnOwnTab ==
  ControllerReturned =>
    /\ trace # <<>>
    /\ Last(trace) = (IF transaction_type = "buy" THEN "selectSide_buy"
                                                  ELSE "selectSide_sell")

\* ------------------------------------------------------------------- C21
\* C21: fills alternate sides within a run: no BUY order is submitted while
\* the last fill of the run is a BUY fill (also one that raced with a timeout
\* or drift cancellation), nor after a SELL order was cancelled and no SELL
\* order has been filled since
C21_FillsAlternate ==
  [][(pc = "buy_submit" /\ pc' = "buy_check") => ~sellDue]_vars

\* ------------------------------------------------------------------- C22
\* a controller is entered
InvokeStep == pc' \in {"buy_tabs", "sell_tabs"} /\ pc' # pc

\* a controller calls cancel_order
ControllerCancelStep ==
  /\ pc \in {"buy_check", "sell_check"}
  /\ pc' = "cancel_normal"

\* C22: the counter is in 0..2 whenever a poll starts; a controller is
\* entered only from a poll, and that poll left the counter at 0; within one
\* controller invocation the submit click and the call of cancel_order each
\* happen at most once
C22_OneOrderPerInvocation ==
  /\ [](pc = "poll" => active_order_count \in 0..(StuckThreshold - 1))
  /\ [][InvokeStep => (pc = "poll" /\ active_order_count' = 0)]_vars
  /\ [][SubmitStep => ~Has(trace, "submit")]_vars
  /\ [][ControllerCancelStep => NormalAttempts(trace) = 0]_vars
  /\ [](ControllerReturned =>
          /\ Count(trace, "submit") <= 1
          /\ NormalAttempts(trace) <= 1
          /\ active_order_count = 0)

\* C22 witness: a controller entered after polls that had counted an order
\* returned having submitted once and called cancel_order once
C22_Witness ==
  /\ ControllerReturned
  /\ Count(trace, "submit") = 1
  /\ NormalAttempts(trace) = 1
  /\ active_order_count = 0

====
